---- MODULE Spec2Model ----
(***************************************************************************)
(* Model of openstack_hypervisor/cli/interfaces.py: the candidate-NIC      *)
(* classifier filter_candidate_nics, its predicate is_interface_configured *)
(* and the list-nics command that runs the classifier and the output pass  *)
(* over the interfaces of a pyroute2 NDB.                                  *)
(*                                                                         *)
(* Strings that the code inspects character by character (addresses) are   *)
(* sequences of one-character strings; the other strings are atoms.        *)
(* Python's None is the atom "None"; a key that a record does not have is  *)
(* the atom "<missing>" (reading it raises KeyError).                      *)
(***************************************************************************)
EXTENDS Naturals, Sequences, FiniteSets

VARIABLES
    nics,             \* the interface objects handed to the passes
    ndb_open,         \* TRUE while the "with pyroute2.NDB()" block is open
    sys_virtual,      \* names listed under /sys/devices/virtual/net
    pc,               \* position of the running call
    virtual_nics,     \* filter_candidate_nics: local virtual_nics
    idx,              \* index of the next interface of the running loop
    configured_nics,  \* filter_candidate_nics: local result accumulator
    results,          \* values returned by the calls of filter_candidate_nics
    nics_,            \* to_output_schema: the InterfaceOutput list
    output,           \* what display_nics printed
    events,           \* address changes the NDB applied during this invocation
    is_configured     \* value returned by a direct is_interface_configured call

vars == <<nics, ndb_open, sys_virtual, pc, virtual_nics, idx, configured_nics,
          results, nics_, output, events, is_configured>>

\* ------------------------------------------------------------------ bounds

MaxNics == 2
MaxAddrs == 2
MaxEvents == 1

\* ------------------------------------------------------------ string atoms

None == "None"
Missing == "<missing>"

Range(s) == {s[i] : i \in 1..Len(s)}

\* Address strings, character by character.
Empty == <<>>
A_fe80_1 == <<"f", "e", "8", "0", ":", ":", "1">>
A_fe80 == <<"f", "e", "8", "0">>
A_fe8 == <<"f", "e", "8">>
A_FE80_1 == <<"F", "E", "8", "0", ":", ":", "1">>
A_10_0_0_5 == <<"1", "0", ".", "0", ".", "0", ".", "5">>
A_xfe80 == <<"x", "f", "e", "8", "0">>
A_192_168_1_1 == <<"1", "9", "2", ".", "1", "6", "8", ".", "1", ".", "1">>
A_192_168_1_2 == <<"1", "9", "2", ".", "1", "6", "8", ".", "1", ".", "2">>
A_192_168_1_3 == <<"1", "9", "2", ".", "1", "6", "8", ".", "1", ".", "3">>

\* str.lower() on the characters and link-state words the model uses.
LowerChar(c) == CASE c = "F" -> "f" [] c = "E" -> "e" [] OTHER -> c

Lower(s) == CASE s = "UP" -> "up" [] s = "DOWN" -> "down" [] OTHER -> s

\* ------------------------------------------------------------- predicates

\* Faulty variant: the prefix compared without regard to case.
is_link_local_ci(address) ==
    /\ Len(address) >= 4
    /\ [i \in 1..4 |-> LowerChar(address[i])] = <<"f", "e", "8", "0">>

\* address.startswith("fe80")
is_link_local(address) ==
    /\ Len(address) >= 4
    /\ SubSeq(address, 1, 4) = <<"f", "e", "8", "0">>

\* The loop of is_interface_configured over ipaddr.summary(): the first
\* record with a truthy, non-link-local address returns True.
RECURSIVE scan_records(_)
scan_records(records) ==
    IF records = <<>> THEN FALSE
    ELSE LET ip == Head(records).address
         IN  IF ip # Empty /\ ~is_link_local(ip) THEN TRUE
             ELSE scan_records(Tail(records))

\* Faulty variant: only the first record of the summary is looked at.
is_interface_configured_first_only(nic) ==
    IF nic.ipaddr.none THEN FALSE
    ELSE /\ nic.ipaddr.summary # <<>>
         /\ LET ip == Head(nic.ipaddr.summary).address
            IN  ip # Empty /\ ~is_link_local(ip)

\* nic.ipaddr is None -> False; else the loop over ipaddr.summary().
is_interface_configured(nic) ==
    IF nic.ipaddr.none THEN FALSE
    ELSE scan_records(nic.ipaddr.summary)

is_nic_connected(interface) == Lower(interface.operstate) = "up"

is_nic_up(interface) == Lower(interface.state) = "up"

load_virtual_interfaces == sys_virtual

\* --------------------------------------------------- filter_candidate_nics

\* Faulty variant: the interface's own kind read instead of slave_kind.
is_bond_slave_by_kind(nic) == nic.kind = "bond"

\* nic["slave_kind"] == "bond"
is_bond_slave(nic) == nic.slave_kind = "bond"

\* Faulty variants of the allowed virtual kinds.
allowed_virtual_kinds_bond_only == {"bond"}

allowed_virtual_kinds_with_bridge == {"bond", "vlan", "bridge"}

\* kind in ("bond", "vlan")
allowed_virtual_kinds == {"bond", "vlan"}

\* Faulty variant: the virtual-interface check left out.
classify_nic_no_virtual_gate(nic) ==
    IF nic.slave_kind = Missing THEN "raise"
    ELSE IF is_bond_slave(nic) THEN "skip"
    ELSE IF is_interface_configured(nic) THEN "skip"
    ELSE "add"

\* One pass of the loop body for nic: "raise" (KeyError on a key the record
\* does not have), "skip" (continue, or configured) or "add" (append ifname).
classify_nic(nic) ==
    IF nic.slave_kind = Missing THEN "raise"
    ELSE IF is_bond_slave(nic) THEN "skip"
    ELSE IF nic.ifname \in virtual_nics /\ nic.kind = Missing THEN "raise"
    ELSE IF nic.ifname \in virtual_nics /\ nic.kind \notin allowed_virtual_kinds
         THEN "skip"
    ELSE IF is_interface_configured(nic) THEN "skip"
    ELSE "add"

\* Faulty variant: the accumulator survives from the previous call.
FilterCall_no_reset ==
    /\ pc \in {"idle", "returned"}
    /\ ~ndb_open
    /\ Len(results) < 2
    /\ virtual_nics' = load_virtual_interfaces
    /\ idx' = 1
    /\ pc' = "filter"
    /\ UNCHANGED <<nics, ndb_open, sys_virtual, configured_nics, results, nics_,
                   output, events, is_configured>>

\* A direct call of filter_candidate_nics(nics), as the unit test makes it:
\* configured_nics = [], virtual_nics = load_virtual_interfaces().  At most
\* two calls in a row are followed.
FilterCall ==
    /\ pc \in {"idle", "returned"}
    /\ ~ndb_open
    /\ Len(results) < 2
    /\ configured_nics' = <<>>
    /\ virtual_nics' = load_virtual_interfaces
    /\ idx' = 1
    /\ pc' = "filter"
    /\ UNCHANGED <<nics, ndb_open, sys_virtual, results, nics_, output, events,
                   is_configured>>

\* Faulty variant: the name is inserted at the front of the list.
FilterStep_prepend ==
    /\ pc = "filter"
    /\ idx <= Len(nics)
    /\ LET nic == nics[idx]
           outcome == classify_nic(nic)
       IN  /\ pc' = IF outcome = "raise" THEN "raised" ELSE "filter"
           /\ configured_nics' = IF outcome = "add"
                                 THEN <<nic.ifname>> \o configured_nics
                                 ELSE configured_nics
    /\ idx' = idx + 1
    /\ UNCHANGED <<nics, ndb_open, sys_virtual, virtual_nics, results, nics_,
                   output, events, is_configured>>

\* One iteration of "for nic in nics".
FilterStep ==
    /\ pc = "filter"
    /\ idx <= Len(nics)
    /\ LET nic == nics[idx]
           outcome == classify_nic(nic)
       IN  /\ pc' = IF outcome = "raise" THEN "raised" ELSE "filter"
           /\ configured_nics' = IF outcome = "add"
                                 THEN Append(configured_nics, nic.ifname)
                                 ELSE configured_nics
    /\ idx' = idx + 1
    /\ UNCHANGED <<nics, ndb_open, sys_virtual, virtual_nics, results, nics_,
                   output, events, is_configured>>

\* return configured_nics
FilterReturn ==
    /\ pc = "filter"
    /\ idx > Len(nics)
    /\ results' = Append(results, configured_nics)
    /\ pc' = IF ndb_open THEN "schema" ELSE "returned"
    /\ idx' = 1
    /\ UNCHANGED <<nics, ndb_open, sys_virtual, virtual_nics, configured_nics,
                   nics_, output, events, is_configured>>

\* ------------------------------------------------------------- list_nics

\* list_nics up to the call of filter_candidate_nics: the NDB is opened,
\* nics = get_interfaces(ndb) are its live interface objects, and the
\* classifier starts (configured_nics = [], virtual_nics loaded).
ListNics ==
    /\ pc = "idle"
    /\ ~ndb_open
    /\ results = <<>>
    /\ ndb_open' = TRUE
    /\ configured_nics' = <<>>
    /\ virtual_nics' = load_virtual_interfaces
    /\ idx' = 1
    /\ pc' = "filter"
    /\ UNCHANGED <<nics, sys_virtual, results, nics_, output, events,
                   is_configured>>

\* to_output_schema: one iteration of "for nic in nics".
SchemaStep ==
    /\ pc = "schema"
    /\ idx <= Len(nics)
    /\ LET nic == nics[idx]
       IN  nics_' = Append(nics_, [name |-> nic.ifname,
                                   configured |-> is_interface_configured(nic),
                                   up |-> is_nic_up(nic),
                                   connected |-> is_nic_connected(nic)])
    /\ idx' = idx + 1
    /\ UNCHANGED <<nics, ndb_open, sys_virtual, pc, virtual_nics,
                   configured_nics, results, output, events, is_configured>>

\* to_output_schema returns and the "with" block closes the NDB.
SchemaReturn ==
    /\ pc = "schema"
    /\ idx > Len(nics)
    /\ ndb_open' = FALSE
    /\ pc' = "display"
    /\ UNCHANGED <<nics, sys_virtual, virtual_nics, idx, configured_nics,
                   results, nics_, output, events, is_configured>>

\* display_nics(nics_, candidate_nics, format): both lists are printed.
Display ==
    /\ pc = "display"
    /\ output' = Append(output, [nics |-> nics_, candidates |-> results[1]])
    /\ pc' = "done"
    /\ UNCHANGED <<nics, ndb_open, sys_virtual, virtual_nics, idx,
                   configured_nics, results, nics_, events, is_configured>>

\* A direct call of is_interface_configured on the first interface.
IsConfiguredCall ==
    /\ pc = "idle"
    /\ Len(nics) >= 1
    /\ is_configured' = is_interface_configured(nics[1])
    /\ pc' = "checked"
    /\ UNCHANGED <<nics, ndb_open, sys_virtual, virtual_nics, idx,
                   configured_nics, results, nics_, output, events>>

\* ------------------------------------------------------------ input data

AddrRecords(addresses) == [i \in 1..Len(addresses) |-> [address |-> addresses[i]]]

SeqsUpTo(S, n) == UNION {[1..k -> S] : k \in 0..n}

\* ipaddr.summary() values of the interfaces of a snapshot.
NicSummaries ==
    {AddrRecords(<<>>), AddrRecords(<<A_fe80_1>>), AddrRecords(<<A_10_0_0_5>>),
     AddrRecords(<<A_fe80_1, A_10_0_0_5>>)}

\* Address strings for the direct calls of is_interface_configured.
AddrPool == {Empty, A_fe80_1, A_fe80, A_fe8, A_FE80_1, A_10_0_0_5, A_xfe80}

NicName == <<"eth0", "vlan0", "bond0", "tap0", "eth1">>

LinkStates == {<<"up", "UP">>, <<"down", "DOWN">>}

NicShapes ==
    [slave_kind : {None, "bond"},
     kind : {"eth", "bond", "vlan", "bridge"},
     ipaddr : [none : {FALSE}, summary : NicSummaries]]

\* Shapes with a key the record lacks, or with ipaddr None.
MalformedShapes ==
    [slave_kind : {Missing, None, "bond"},
     kind : {Missing, "eth", "bond", "bridge"},
     ipaddr : [none : {FALSE}, summary : NicSummaries]
              \cup {[none |-> TRUE, summary |-> <<>>]}]

MkNic(name, shape, link) ==
    [ifname |-> name, slave_kind |-> shape.slave_kind, kind |-> shape.kind,
     ipaddr |-> shape.ipaddr, state |-> link[1], operstate |-> link[2]]

Names(ns) == {ns[i].ifname : i \in 1..Len(ns)}

\* The list of n interfaces with the shapes f and the link states l.
Snapshot(n, f, l) == [i \in 1..n |-> MkNic(NicName[i], f[i], l[i])]

FixtureNic(name, slave_kind, kind, addresses) ==
    [ifname |-> name, slave_kind |-> slave_kind, kind |-> kind,
     ipaddr |-> [none |-> FALSE, summary |-> AddrRecords(addresses)],
     state |-> "up", operstate |-> "UP"]

\* INTERFACES of the unit test.
INTERFACES ==
    <<FixtureNic("eth0", None, "eth", <<A_192_168_1_1>>),
      FixtureNic("eth1", "bond", "eth", <<A_192_168_1_2>>),
      FixtureNic("eth2", None, "eth", <<>>),
      FixtureNic("vlan0", None, "vlan", <<A_fe80_1>>),
      FixtureNic("bond0", None, "bond", <<A_192_168_1_3>>),
      FixtureNic("bond1", None, "bond", <<>>)>>

\* return_value of the patched load_virtual_interfaces in the unit test.
FixtureVirtual == {"vlan0", "bond0", "bond1"}

Start(ns, sv) ==
    /\ nics = ns
    /\ sys_virtual = sv
    /\ ndb_open = FALSE
    /\ pc = "idle"
    /\ virtual_nics = {}
    /\ idx = 1
    /\ configured_nics = <<>>
    /\ results = <<>>
    /\ nics_ = <<>>
    /\ output = <<>>
    /\ events = 0
    /\ is_configured = FALSE

\* ------------------------------------------------------- specifications

\* The classifier called on a fixed list of interfaces (the unit test's
\* mocks), once or twice in a row.
Init ==
    \/ Start(INTERFACES, FixtureVirtual)
    \/ \E n \in 0..MaxNics : \E f \in [1..n -> NicShapes] :
           \E sv \in SUBSET {NicName[i] : i \in 1..n} :
               Start(Snapshot(n, f, [i \in 1..n |-> <<"up", "UP">>]), sv)

Next == FilterCall \/ FilterStep \/ FilterReturn

Spec == Init /\ [][Next]_vars

\* The classifier called on records that may lack a key.
InitMalformed ==
    \E n \in 0..MaxNics : \E f \in [1..n -> MalformedShapes] :
        \E sv \in SUBSET {NicName[i] : i \in 1..n} :
            Start(Snapshot(n, f, [i \in 1..n |-> <<"up", "UP">>]), sv)

SpecMalformed == InitMalformed /\ [][Next]_vars

\* is_interface_configured called on one interface.
InitAddr ==
    \E addresses \in SeqsUpTo(AddrPool, MaxAddrs) :
        Start(<<FixtureNic("eth0", None, "eth", addresses)>>, {})

NextAddr == IsConfiguredCall

SpecAddr == InitAddr /\ [][NextAddr]_vars

\* The list-nics command on the live interface objects of an open NDB.
\* nic.ipaddr is a view on the NDB's address table and summary() reads it
\* at the time of the call; while the NDB is open it applies the address
\* changes the kernel announces.
AddressEvent ==
    /\ ndb_open
    /\ events < MaxEvents
    /\ \E i \in 1..Len(nics) : \E summary \in NicSummaries :
           /\ summary # nics[i].ipaddr.summary
           /\ nics' = [nics EXCEPT ![i].ipaddr.summary = summary]
    /\ events' = events + 1
    /\ UNCHANGED <<ndb_open, sys_virtual, pc, virtual_nics, idx,
                   configured_nics, results, nics_, output, is_configured>>

InitLive ==
    \E n \in 0..MaxNics :
        \E f \in [1..n -> NicShapes], l \in [1..n -> LinkStates] :
            \E sv \in SUBSET {NicName[i] : i \in 1..n} :
                Start(Snapshot(n, f, l), sv)

NextLive ==
    \/ ListNics
    \/ FilterStep
    \/ FilterReturn
    \/ SchemaStep
    \/ SchemaReturn
    \/ Display
    \/ AddressEvent

SpecLive == InitLive /\ [][NextLive]_vars

\* ---------------------------------------------------------- properties

\* The specification's words, stated without the code's operators.
StartsWithFe80(a) ==
    Len(a) >= 4 /\ a[1] = "f" /\ a[2] = "e" /\ a[3] = "8" /\ a[4] = "0"

AddressesOf(nic) ==
    {nic.ipaddr.summary[k].address : k \in 1..Len(nic.ipaddr.summary)}

HasAddressNotFe80(nic) == \E a \in AddressesOf(nic) : ~StartsWithFe80(a)

HasNonLinkLocalAddress(nic) ==
    \E a \in AddressesOf(nic) : a # Empty /\ ~StartsWithFe80(a)

LastResult == results[Len(results)]

\* Every list the classifier has built so far: the accumulator and the
\* returned values.
NamedSoFar == Range(configured_nics) \cup UNION {Range(results[r]) : r \in 1..Len(results)}

NoDuplicates(s) == \A i, j \in 1..Len(s) : s[i] = s[j] => i = j

PositionIn(ns, name) == CHOOSE k \in 1..Len(ns) : ns[k].ifname = name

IsCandidate(nic) ==
    /\ nic.slave_kind # "bond"
    /\ nic.ifname \notin sys_virtual \/ nic.kind \in {"bond", "vlan"}
    /\ ~HasNonLinkLocalAddress(nic)

RECURSIVE CandidateNames(_)
CandidateNames(ns) ==
    IF ns = <<>> THEN <<>>
    ELSE (IF IsCandidate(Head(ns)) THEN <<Head(ns).ifname>> ELSE <<>>)
         \o CandidateNames(Tail(ns))

\* C1: an interface whose slave_kind is "bond" is never named in a list the
\* classifier builds or returns, whatever its kind, its addresses and its
\* membership of the virtual names.
C1_BondSlaveNeverCandidate ==
    \A i \in 1..Len(nics) :
        nics[i].slave_kind = "bond" => nics[i].ifname \notin NamedSoFar

C1_Witness ==
    /\ pc = "returned"
    /\ \E i \in 1..Len(nics) :
           /\ nics[i].slave_kind = "bond"
           /\ nics[i].ifname \notin sys_virtual
           /\ nics[i].ipaddr.summary = <<>>
    /\ \E i \in 1..Len(nics) :
           /\ nics[i].slave_kind = "bond"
           /\ nics[i].ifname \in sys_virtual
           /\ nics[i].kind = "vlan"

\* C2: an interface whose name is among the virtual names and whose kind is
\* neither "bond" nor "vlan" is never named by the classifier, also when it
\* has no address or only link-local ones.
C2_VirtualOtherKindExcluded ==
    \A i \in 1..Len(nics) :
        (nics[i].ifname \in sys_virtual /\ nics[i].kind \notin {"bond", "vlan"})
            => nics[i].ifname \notin NamedSoFar

C2_Witness ==
    /\ pc = "returned"
    /\ \E i \in 1..Len(nics) :
           /\ nics[i].ifname \in sys_virtual
           /\ nics[i].kind = "bridge"
           /\ nics[i].slave_kind = None
           /\ nics[i].ipaddr.summary = AddrRecords(<<A_fe80_1>>)

\* C3 as stated: every interface of kind "bond" or "vlan" whose name is
\* among the virtual names and that is not configured is in the returned
\* list, with no condition on its slave_kind.
C3_AsStated ==
    pc = "returned" =>
        \A i \in 1..Len(nics) :
            (/\ nics[i].kind \in {"bond", "vlan"}
             /\ nics[i].ifname \in sys_virtual
             /\ ~HasNonLinkLocalAddress(nics[i]))
                => nics[i].ifname \in Range(LastResult)

\* C3 amended: every interface of kind "bond" or "vlan" whose name is among
\* the virtual names, that is not configured and whose slave_kind is not
\* "bond" is in the returned list.
C3_AllowedVirtualIncluded ==
    pc = "returned" =>
        \A i \in 1..Len(nics) :
            (/\ nics[i].kind \in {"bond", "vlan"}
             /\ nics[i].ifname \in sys_virtual
             /\ ~HasNonLinkLocalAddress(nics[i])
             /\ nics[i].slave_kind # "bond")
                => nics[i].ifname \in Range(LastResult)

C3_Witness ==
    /\ pc = "returned"
    /\ \E i \in 1..Len(nics) :
           /\ nics[i].kind = "vlan"
           /\ nics[i].ifname \in sys_virtual
           /\ nics[i].slave_kind = None
           /\ nics[i].ipaddr.summary = AddrRecords(<<A_fe80_1>>)
           /\ nics[i].ifname \in Range(LastResult)

\* C4: an interface that carries a non-link-local address is never named by
\* the classifier, also when it is a bond or VLAN among the virtual names.
C4_ConfiguredNeverCandidate ==
    \A i \in 1..Len(nics) :
        HasNonLinkLocalAddress(nics[i]) => nics[i].ifname \notin NamedSoFar

C4_Witness ==
    /\ pc = "returned"
    /\ \E i \in 1..Len(nics) :
           /\ nics[i].kind = "bond"
           /\ nics[i].ifname \in sys_virtual
           /\ nics[i].slave_kind = None
           /\ nics[i].ipaddr.summary = AddrRecords(<<A_fe80_1, A_10_0_0_5>>)

\* C5 as stated: is_interface_configured is true exactly when some address
\* string of the list does not start with "fe80", the empty string included.
C5_AsStated ==
    pc = "checked" => (is_configured <=> HasAddressNotFe80(nics[1]))

\* C5 amended: is_interface_configured is true exactly when some address
\* string of the list is not empty and does not start with the
\* case-sensitive prefix "fe80"; the order of the list does not matter.
C5_ConfiguredIffNonEmptyNotFe80 ==
    pc = "checked" => (is_configured <=> HasNonLinkLocalAddress(nics[1]))

C5_Witness ==
    /\ pc = "checked"
    /\ nics[1].ipaddr.summary = AddrRecords(<<A_fe80_1, A_FE80_1>>)
    /\ is_configured

\* C6: the returned list is the input-order sequence of the names of the
\* interfaces that are not bond slaves, are not virtual or are of kind
\* "bond"/"vlan", and are not configured; for the unit test's interfaces it
\* is ["eth2", "vlan0", "bond1"].
C6_ResultIsCandidateNames ==
    pc = "returned" =>
        /\ LastResult = CandidateNames(nics)
        /\ (nics = INTERFACES /\ sys_virtual = FixtureVirtual)
               => LastResult = <<"eth2", "vlan0", "bond1">>

C6_Witness ==
    /\ pc = "returned"
    /\ nics = INTERFACES
    /\ sys_virtual = FixtureVirtual
    /\ Len(LastResult) = 3

\* C7: the returned list names only interfaces of the input, names none
\* twice, and keeps the input's relative order.
C7_SubsetNoDupOrdered ==
    pc = "returned" =>
        /\ Range(LastResult) \subseteq Names(nics)
        /\ NoDuplicates(LastResult)
        /\ \A i, j \in 1..Len(LastResult) :
               i < j => PositionIn(nics, LastResult[i]) < PositionIn(nics, LastResult[j])

C7_Witness ==
    /\ pc = "returned"
    /\ Len(LastResult) >= 2
    /\ Len(LastResult) < Len(nics)

\* C8: the classifier never raises; a record that lacks slave_kind or kind,
\* or whose ipaddr is None, is not a candidate and the other records are
\* still classified.
C8_NeverRaises ==
    /\ pc # "raised"
    /\ pc = "returned" =>
           \A i \in 1..Len(nics) :
               (\/ nics[i].slave_kind = Missing
                \/ nics[i].kind = Missing
                \/ nics[i].ipaddr.none)
                   => nics[i].ifname \notin Range(LastResult)

\* C9: two calls in a row on the same interfaces and virtual names return
\* the same list, and no step changes the interfaces or the virtual names.
C9_SecondCallSameResult ==
    /\ [](Len(results) = 2 => results[1] = results[2])
    /\ [][nics' = nics /\ sys_virtual' = sys_virtual]_vars

C9_Witness ==
    /\ Len(results) = 2
    /\ pc = "returned"
    /\ Len(results[2]) >= 1

\* C10: in what one list-nics invocation prints, every name of "candidates"
\* is the name of an entry of "nics" whose configured flag is false, and no
\* entry of "nics" with configured true is named in "candidates".
C10_OutputsAgree ==
    pc = "done" =>
        LET shown == output[Len(output)]
        IN  /\ \A c \in Range(shown.candidates) :
                   \E k \in 1..Len(shown.nics) :
                       shown.nics[k].name = c /\ ~shown.nics[k].configured
            /\ \A k \in 1..Len(shown.nics) :
                   shown.nics[k].configured
                       => shown.nics[k].name \notin Range(shown.candidates)

====
